---- MODULE Spec2Model ----
(***************************************************************************)
(* A model of gconv's struct conversion (util/gconv/gconv_struct.go) and   *)
(* of its struct-metadata cache (util/gconv/gconv_struct_cache.go).        *)
(*                                                                         *)
(* Strings are sequences of one-character strings, so that the symbol      *)
(* stripping and the case folding of the fuzzy match are computed.         *)
(***************************************************************************)
EXTENDS Integers, Sequences, FiniteSets, TLC

VARIABLES
    input,      \* the arguments of the doStruct call under way
    stack,      \* the doStruct activations, the innermost last
    outcome,    \* what the outermost doStruct call returned
    dest,       \* the caller's destination variable, as the caller sees it
    previous,   \* the outcome and the destination of an earlier call
    cachedStructsInfoMap,   \* struct type -> address of its cached table
    heap,                   \* address -> the cachedStructInfo stored there
    callers,                \* the getCachedStructInfo calls, one per caller
    customConvTypeMap,      \* the types registered as custom-convert targets
    poolUsedParamsKeyOrTagNameMap,  \* the addresses of the maps in the sync.Pool
    keyMaps,                        \* address -> the keys of the map stored there
    users                           \* the calls that take a map from the pool

structVars == <<input, stack, outcome, dest, previous>>
cacheVars  == <<cachedStructsInfoMap, heap, callers, customConvTypeMap>>
poolVars   == <<poolUsedParamsKeyOrTagNameMap, keyMaps, users>>
vars == <<structVars, cacheVars, poolVars>>

(***************************************************************************)
(* Bounds of the model.                                                    *)
(***************************************************************************)
\* The largest number of entries of a source map.
MaxParams == 2

\* The number of callers of getCachedStructInfo, each making one call.
NumCallers == 2

\* The number of calls that use the pool of consumed-keys maps at a time, and
\* the number of maps the pool's New function may allocate.
NumUsers == 2
MaxMaps == 3

(***************************************************************************)
(* Strings.                                                                *)
(***************************************************************************)
Uppers == <<"A","B","C","D","E","F","G","H","I","J","K","L","M",
            "N","O","P","Q","R","S","T","U","V","W","X","Y","Z">>

Lowers == <<"a","b","c","d","e","f","g","h","i","j","k","l","m",
            "n","o","p","q","r","s","t","u","v","w","x","y","z">>

DigitChars == {"0","1","2","3","4","5","6","7","8","9"}

\* utils.IsLetterUpper: the byte is in 'A'..'Z'.
IsLetterUpper(c) == \E i \in 1..Len(Uppers) : Uppers[i] = c

IsLetterLower(c) == \E i \in 1..Len(Lowers) : Lowers[i] = c

ToLower(c) ==
    IF IsLetterUpper(c)
    THEN Lowers[CHOOSE i \in 1..Len(Uppers) : Uppers[i] = c]
    ELSE c

IsAlnum(c) == IsLetterUpper(c) \/ IsLetterLower(c) \/ c \in DigitChars

\* utils.RemoveSymbols: keeps the letters and the digits, drops the rest.
RemoveSymbols(s) == SelectSeq(s, IsAlnum)

\* strings.EqualFold: equality under case folding.
EqualFold(s, t) ==
    /\ Len(s) = Len(t)
    /\ \A i \in 1..Len(s) : ToLower(s[i]) = ToLower(t[i])

\* strings.Split(value, ",")[0]: the text before the first comma.
RECURSIVE BeforeComma(_)
BeforeComma(s) ==
    IF s = <<>> \/ Head(s) = "," THEN <<>> ELSE <<Head(s)>> \o BeforeComma(Tail(s))

RECURSIVE TrimLeft(_)
TrimLeft(s) == IF s # <<>> /\ Head(s) = " " THEN TrimLeft(Tail(s)) ELSE s

RECURSIVE TrimRight(_)
TrimRight(s) ==
    IF s # <<>> /\ s[Len(s)] = " " THEN TrimRight(SubSeq(s, 1, Len(s) - 1)) ELSE s

\* strings.TrimSpace.
TrimSpace(s) == TrimRight(TrimLeft(s))

\* The names used by the struct types and the source maps of the model.
sName      == <<"N","a","m","e">>
sname      == <<"n","a","m","e">>
sNAME      == <<"N","A","M","E">>
sInfo      == <<"I","n","f","o">>
sUserName  == <<"U","s","e","r","N","a","m","e">>
suser_name == <<"u","s","e","r","_","n","a","m","e">>
susername  == <<"u","s","e","r","n","a","m","e">>
sID        == <<"I","D">>
sid        == <<"i","d">>
sId        == <<"I","d">>
sA         == <<"A">>
sB         == <<"B">>
sF         == <<"F">>
sG         == <<"G">>
sP         == <<"P">>
sIn        == <<"I","n">>
sX         == <<"X">>
sY         == <<"Y">>
sC         == <<"C">>
sD         == <<"D">>
sx         == <<"x">>
sy         == <<"y">>
sz         == <<"z">>
sxOmit     == <<" ","x"," ",",","o","m","i","t">>
sOmit      == <<",","o","m","i","t">>
sInner     == <<"I","n","n","e","r">>
shidden    == <<"h","i","d","d","e","n">>
sL1        == <<"L","1">>
sL2        == <<"L","2">>
sL3        == <<"L","3">>

(***************************************************************************)
(* Source values.  A value is nil (the untyped nil interface), a scalar, a *)
(* value no conversion accepts ("bad"), a map[string]interface{}, or a     *)
(* struct or pointer to a struct (a cell, as defined below).               *)
(***************************************************************************)
NoEntries == [k \in {} |-> 0]

NilVal    == [k |-> "nil",    s |-> "",    m |-> NoEntries]
Scalar(x) == [k |-> "scalar", s |-> x,     m |-> NoEntries]
BadVal    == [k |-> "bad",    s |-> "bad", m |-> NoEntries]
MapVal(f) == [k |-> "map",    s |-> "",    m |-> f]
CellVal(c) == [k |-> "cell",   s |-> "",    m |-> NoEntries, cell |-> c]

\* Adds or replaces one entry of a map.
Put(f, key, v) == [x \in DOMAIN f \cup {key} |-> IF x = key THEN v ELSE f[x]]

(***************************************************************************)
(* Destination struct types.  A field type is a primitive ("int": the      *)
(* conversion of any value succeeds), a type with an UnmarshalValue method *)
(* ("unm": the method returns an error for a bad value), a struct, a       *)
(* pointer to a struct, a type that no conversion produces from the        *)
(* sources of the model ("raw", such as chan int), or a pointer to such a  *)
(* type ("ptrraw").                                                        *)
(***************************************************************************)
TInt       == [kind |-> "int",    elem |-> ""]
TUnm       == [kind |-> "unm",    elem |-> ""]
TStruct(n) == [kind |-> "struct", elem |-> n]
TPtr(n)    == [kind |-> "ptr",    elem |-> n]
TPtrRaw    == [kind |-> "ptrraw", elem |-> "chan"]
TRaw       == [kind |-> "raw",    elem |-> ""]

NoTags == <<>>
Tag(t, v) == [tag |-> t, value |-> v]

StructField(n, tags, anon, ty) ==
    [name |-> n, tags |-> tags, anonymous |-> anon, type |-> ty]

\* reflect.Type.Field(i) of the struct types of the model, i = 1..NumField.
StructFields(T) ==
    CASE T = "User" ->
            << StructField(sName, NoTags, FALSE, TInt),
               StructField(sInfo, <<Tag("json", sname)>>, FALSE, TInt) >>
      [] T = "Account" ->
            << StructField(shidden, NoTags, FALSE, TInt),
               StructField(sUserName, NoTags, FALSE, TInt) >>
      [] T = "Tagged" ->
            << StructField(sF, <<Tag("a", sxOmit), Tag("b", sy)>>, FALSE, TInt),
               StructField(sG, <<Tag("a", sOmit), Tag("b", sz)>>, FALSE, TInt) >>
      [] T = "Inner" ->
            << StructField(sX, NoTags, FALSE, TUnm) >>
      [] T = "A" ->
            << StructField(sID, NoTags, FALSE, TInt) >>
      [] T = "B" ->
            << StructField(sID, NoTags, FALSE, TInt) >>
      [] T = "Pair" ->
            << StructField(sA, NoTags, TRUE, TStruct("A")),
               StructField(sB, NoTags, TRUE, TStruct("B")),
               StructField(sID, NoTags, FALSE, TInt) >>
      [] T = "Holder" ->
            << StructField(sP, NoTags, FALSE, TPtr("Inner")),
               StructField(sIn, NoTags, FALSE, TStruct("Inner")) >>
      [] T = "Wrap" ->
            << StructField(sInner, NoTags, TRUE, TPtr("Inner")) >>
      [] T = "Sealed" ->
            << StructField(shidden, NoTags, FALSE, TInt) >>
      [] T = "Mixed" ->
            << StructField(sX, NoTags, FALSE, TUnm),
               StructField(sY, NoTags, FALSE, TInt) >>
      [] T = "Raw" ->
            << StructField(sC, NoTags, FALSE, TPtrRaw),
               StructField(sD, NoTags, FALSE, TRaw) >>
      [] T = "Echo" ->
            << StructField(sName, <<Tag("json", sName)>>, FALSE, TInt) >>
      [] T = "Clash" ->
            << StructField(sF, <<Tag("json", sG)>>, FALSE, TInt),
               StructField(sG, NoTags, FALSE, TInt),
               StructField(sB, <<Tag("json", sG)>>, FALSE, TInt) >>
      [] T = "Deep" ->
            << StructField(sL1, NoTags, TRUE, TStruct("L1")) >>
      [] T = "L1" ->
            << StructField(sL2, NoTags, TRUE, TStruct("L2")) >>
      [] T = "L2" ->
            << StructField(sL3, NoTags, TRUE, TStruct("L3")) >>
      [] T = "L3" ->
            << StructField(sF, NoTags, FALSE, TInt),
               StructField(sG, NoTags, FALSE, TInt) >>

NumField(T) == Len(StructFields(T))

\* reflect.StructTag.Lookup.
TagPresent(field, tag) == \E j \in 1..Len(field.tags) : field.tags[j].tag = tag

TagLookup(field, tag) ==
    field.tags[CHOOSE j \in 1..Len(field.tags) : field.tags[j].tag = tag].value

\* gtag.StructTagPriority.
StructTagPriority == <<"gconv", "param", "c", "p", "json">>

(***************************************************************************)
(* Destination values.  A cell is what a reflect.Value designates: a       *)
(* scalar (v names the source scalar it was converted from, "" for the     *)
(* zero value), a struct (its fields) or a pointer (nil when it has no     *)
(* pointee).                                                               *)
(***************************************************************************)
ScalarCell(x)    == [kind |-> "scalar", type |-> "",  v |-> x,  fields |-> <<>>]
StructCell(T, fs) == [kind |-> "struct", type |-> T,  v |-> "", fields |-> fs]
NilPtr(T)        == [kind |-> "ptr",    type |-> T,   v |-> "", fields |-> <<>>]
PtrTo(c)         == [kind |-> "ptr",    type |-> c.type, v |-> "", fields |-> <<c>>]

IsNilPtr(c) == c.kind = "ptr" /\ c.fields = <<>>

\* A struct of type T whose scalar fields hold x and whose pointers are nil.
RECURSIVE FilledStruct(_, _)
FilledStruct(T, x) ==
    StructCell(T,
        [i \in 1..NumField(T) |->
            LET ty == StructFields(T)[i].type IN
            CASE ty.kind = "struct" -> FilledStruct(ty.elem, x)
              [] ty.kind = "ptr"    -> NilPtr(ty.elem)
              [] ty.kind = "ptrraw" -> NilPtr(ty.elem)
              [] OTHER              -> ScalarCell(x)])

\* reflect.Zero of a struct type.
ZeroStruct(T) == FilledStruct(T, "")

\* reflect.Zero of the type of a cell.
ZeroOf(c) ==
    CASE c.kind = "struct" -> ZeroStruct(c.type)
      [] c.kind = "ptr"    -> NilPtr(c.type)
      [] OTHER             -> ScalarCell("")

\* The struct a struct cell or a non-nil pointer cell leads to.
StructOf(c) == IF c.kind = "ptr" THEN c.fields[1] ELSE c

WithStruct(c, st) == IF c.kind = "ptr" THEN PtrTo(st) ELSE st

SetField(st, i, c) == [st EXCEPT !.fields[i] = c]

(***************************************************************************)
(* doStruct.  An activation of doStruct is a frame; `cell` is the value    *)
(* its `pointer` argument designates (for the outermost call what the      *)
(* caller's pointer points to, for a reflect.Value argument that value).   *)
(* `err` is the named result, "" for nil.  Three fields are ghosts: `bound` *)
(* records for each field bound so far the source key that supplied its    *)
(* value, how it was resolved and how many fields were bound before it;    *)
(* `fuzzyTried` the keys the fuzzy match of a field could take when it was *)
(* tried; `failedPtr` the nil pointer-to-struct fields whose conversion    *)
(* failed; `failed` the fields whose value could not be bound; `steps` the *)
(* stages of doStruct the call went through after the type check;          *)
(* `panicAt` the fields whose assignment failed by a panic; `errField` the *)
(* field name the error of the call carries, <<>> when it carries none.    *)
(***************************************************************************)
NoWait == [field |-> <<>>, index |-> 0, mode |-> "", key |-> <<>>,
           marker |-> <<>>, how |-> ""]

NewFrame(call, params, cell, mapping, priorityTag, viaReflect, ptrKind) ==
    [call |-> call, pc |-> "enter", params |-> params, mapping |-> mapping,
     priorityTag |-> priorityTag, viaReflect |-> viaReflect, ptrKind |-> ptrKind,
     cell |-> cell, defers |-> <<>>, vivified |-> FALSE, i |-> 1,
     fieldInfoMap |-> NoEntries, todo |-> {}, usedParamsKey |-> {},
     bound |-> NoEntries, fuzzyTried |-> NoEntries, failedPtr |-> {},
     failed |-> {}, steps |-> {}, panicAt |-> {}, err |-> "", errField |-> <<>>,
     panicking |-> FALSE, wait |-> NoWait]

\* `return err`.
Ret(f, e) == [f EXCEPT !.pc = "ret", !.err = e]

\* The priority tags of a call: the caller's tags, then gtag.StructTagPriority.
PriorityTagArray(priorityTag) ==
    IF priorityTag # <<>> THEN priorityTag \o StructTagPriority ELSE StructTagPriority

\* doStruct's getTag: the name of the first priority tag the field carries.
RECURSIVE getTag(_, _)
getTag(field, priorityTags) ==
    IF priorityTags = <<>> THEN <<>>
    ELSE IF TagPresent(field, Head(priorityTags))
         THEN TrimSpace(BeforeComma(TagLookup(field, Head(priorityTags))))
         ELSE getTag(field, Tail(priorityTags))

\* The conversion of a struct to a map: each public field under the name of
\* its first priority tag, or under its own name.
StructToMap(st) ==
    LET pub == {i \in 1..Len(st.fields) : IsLetterUpper(StructFields(st.type)[i].name[1])}
        key(i) == LET fld == StructFields(st.type)[i]
                      t == getTag(fld, StructTagPriority)
                  IN  IF t # <<>> THEN t ELSE fld.name
    IN  [x \in {key(i) : i \in pub} |->
            Scalar(st.fields[CHOOSE i \in pub : key(i) = x].v)]

\* doMapConvert: a map passes through, a struct or a pointer to one gives the
\* map of its fields, any other source of the model gives nil.
doMapConvert(params) ==
    CASE params.k = "map"  -> params
      [] params.k = "cell" -> MapVal(StructToMap(StructOf(params.cell)))
      [] OTHER             -> NilVal

\* The deferred reset of an auto-vivified pointer:
\* pointerReflectValue.Elem().Set(reflect.Zero(pointerReflectValue.Type().Elem())).
ResetCell(f) ==
    IF f.viaReflect THEN PtrTo(ZeroStruct(f.cell.type)) ELSE NilPtr(f.cell.type)

\* One deferred call of doStruct.
RunDefer(f, d) ==
    CASE d = "reset" ->
            IF f.err # "" THEN [f EXCEPT !.cell = ResetCell(f)] ELSE f
      [] d = "recover" ->
            IF f.panicking
            THEN [f EXCEPT !.err = "InternalPanic", !.errField = <<>>,
                           !.panicking = FALSE]
            ELSE f

\* Go runs the deferred calls of a function last registered first.
RECURSIVE RunDefers(_, _)
RunDefers(f, ds) ==
    IF ds = <<>> THEN f
    ELSE RunDefers(RunDefer(f, ds[Len(ds)]), SubSeq(ds, 1, Len(ds) - 1))

\* doConvertWithTypeCheck: the source and the element the pointer designates
\* have the same type, a struct type or a pointer type.
doConvertWithTypeCheck(params, cell) ==
    /\ params.k = "cell"
    /\ params.cell.kind = cell.kind
    /\ params.cell.type = cell.type

\* doStruct after the type check: the custom converter and the unmarshalling
\* interfaces (none applies to the types of the model), the creation of the
\* struct for a nil pointer, and the conversion of the source to a map.
AfterTypeCheck(f) ==
    LET f1 == [f EXCEPT !.steps = @ \cup {"custom", "interface"}]
        f2 == IF IsNilPtr(f1.cell)
              THEN [f1 EXCEPT !.cell = PtrTo(ZeroStruct(f1.cell.type)),
                              !.defers = Append(@, "reset"),
                              !.vivified = TRUE,
                              !.steps = @ \cup {"vivify"}]
              ELSE f1
        paramsMap == doMapConvert(f.params)
    IN  IF paramsMap.k = "nil" THEN Ret(f2, "InvalidParameter")
        ELSE IF DOMAIN paramsMap.m = {} THEN Ret(f2, "")
        ELSE [f2 EXCEPT !.params = paramsMap, !.pc = "scan", !.i = 1,
                        !.steps = @ \cup {"match"}]

\* A type check whose result is not looked at.
FastPath_Ignored(f) == AfterTypeCheck(f)

\* `if ok = doConvertWithTypeCheck(...); ok { return nil }`: the source has
\* been assigned to the element.
FastPath(f) == Ret([f EXCEPT !.cell = f.params.cell], "")

\* doStruct from its entry to the scan of the fields.
EnterStep(f) ==
    IF f.params.k = "nil" THEN Ret(f, "")
    ELSE IF f.ptrKind = "nil" THEN Ret(f, "InvalidParameter")
    ELSE
      LET f1 == [f EXCEPT !.defers = <<"recover">>] IN
      IF ~f.viaReflect /\ f.ptrKind \in {"nonptr", "nilptr"}
      THEN Ret(f1, "InvalidParameter")
      ELSE IF doConvertWithTypeCheck(f.params, f1.cell) THEN FastPath(f1)
      ELSE AfterTypeCheck(f1)

FieldInfo(index, tag) ==
    [index |-> index, tag |-> tag, val |-> NilVal, src |-> <<>>, how |-> ""]

\* One iteration of the loop over the fields of the destination type.
ScanStep_SkipEmbedded(f) ==
    LET st == StructOf(f.cell)
        fld == StructFields(st.type)[f.i]
        fieldTag == getTag(fld, PriorityTagArray(f.priorityTag))
    IN  IF ~IsLetterUpper(fld.name[1]) \/ fld.anonymous
        THEN << [f EXCEPT !.i = @ + 1] >>
        ELSE << [f EXCEPT !.i = @ + 1,
                          !.fieldInfoMap =
                             Put(@, fld.name,
                                 FieldInfo(f.i, IF fieldTag = <<>> THEN fld.name
                                                ELSE fieldTag))] >>

ScanStep(f) ==
    LET st == StructOf(f.cell)
        fld == StructFields(st.type)[f.i]
        fieldTag == getTag(fld, PriorityTagArray(f.priorityTag))
    IN  IF ~IsLetterUpper(fld.name[1]) THEN << [f EXCEPT !.i = @ + 1] >>
        ELSE IF fld.anonymous
        THEN LET f1 == IF fieldTag # <<>>
                       THEN [f EXCEPT !.fieldInfoMap =
                                Put(@, fld.name, FieldInfo(f.i, fieldTag))]
                       ELSE f
             IN  << [f1 EXCEPT !.pc = "scanWait"],
                    NewFrame("anon", f.params, st.fields[f.i], f.mapping,
                             f.priorityTag, TRUE, "ptr") >>
        ELSE << [f EXCEPT !.i = @ + 1,
                          !.fieldInfoMap =
                             Put(@, fld.name,
                                 FieldInfo(f.i, IF fieldTag = <<>> THEN fld.name
                                                ELSE fieldTag))] >>

\* The first look-up: each field takes the entry at its tag.
ExactLookup(f) ==
    [n \in DOMAIN f.fieldInfoMap |->
        LET fi == f.fieldInfoMap[n] IN
        IF fi.tag \in DOMAIN f.params.m
        THEN [fi EXCEPT !.val = f.params.m[fi.tag], !.src = fi.tag, !.how = "exact"]
        ELSE fi]

\* The keys of paramKeyToAttrMap that name field n and are keys of the source.
OverrideKeys(f, n) ==
    {k \in DOMAIN f.mapping : f.mapping[k] = n /\ k \in DOMAIN f.params.m}

\* The look-up by the custom rules, which overwrites the first one.  A Go map
\* is ranged over in any order: of several keys naming one field any may be last.
OverrideLookup(f, fim, pick) ==
    [n \in DOMAIN fim |->
        IF n \in DOMAIN pick
        THEN [fim[n] EXCEPT !.val = f.params.m[pick[n]], !.src = pick[n],
                            !.how = "override"]
        ELSE fim[n]]

OverridePicks(f) ==
    LET over == {n \in DOMAIN f.fieldInfoMap : OverrideKeys(f, n) # {}} IN
    {pick \in [over -> DOMAIN f.mapping] : \A n \in over : pick[n] \in OverrideKeys(f, n)}

\* The keys fuzzyMatchingFieldName accepts: not used, and equal to the field
\* name once the symbols are removed and the case is folded.
FuzzyKeys(fieldName, paramsMap, usedParamsKey) ==
    {k \in DOMAIN paramsMap \ usedParamsKey :
        EqualFold(RemoveSymbols(fieldName), RemoveSymbols(k))}

\* fuzzyMatchingFieldName: the results the range over paramsMap can give.
fuzzyMatchingFieldName(fieldName, paramsMap, usedParamsKey) ==
    LET c == FuzzyKeys(fieldName, paramsMap, usedParamsKey)
    IN  IF c = {} THEN {[key |-> <<>>, val |-> NilVal]}
        ELSE {[key |-> k, val |-> paramsMap[k]] : k \in c}

\* The end of an iteration of the binding loop that bound field n.
Bound(f, n, cell, key, marker, how) ==
    [f EXCEPT !.cell = WithStruct(f.cell, SetField(StructOf(f.cell), f.fieldInfoMap[n].index, cell)),
              !.usedParamsKey = @ \cup {marker},
              !.bound = Put(@, n, [key |-> key, how |-> how,
                                   ord |-> Cardinality(DOMAIN f.bound)]),
              !.todo = @ \ {n},
              !.wait = NoWait,
              !.pc = IF f.todo \ {n} = {} THEN "ret" ELSE "bind"]

\* An iteration of the binding loop that binds nothing.
Skipped(f, n) ==
    [f EXCEPT !.todo = @ \ {n}, !.pc = IF f.todo \ {n} = {} THEN "ret" ELSE "bind"]

\* bindVarToReflectValue for a field of a type no conversion produces: the
\* panic of reflect's Convert is recovered in the default case, and the
\* deferred function of bindVarToStructAttrWithFieldIndex wraps the error
\* with the name of the attribute.
Wrapped(f, n) ==
    [f EXCEPT !.failed = @ \cup {n},
              !.panicAt = @ \cup {n},
              !.errField = n,
              !.err = "InternalPanic",
              !.pc = "ret"]

\* bindVarToReflectValue for a nil pointer whose element no conversion
\* produces: the error of the inner call is dropped, the pointer stays nil
\* and nil is returned, so the loop marks the key as used and goes on.
Dropped(f, n, marker) ==
    [f EXCEPT !.usedParamsKey = @ \cup {marker},
              !.failed = @ \cup {n},
              !.panicAt = @ \cup {n},
              !.todo = @ \ {n},
              !.pc = IF f.todo \ {n} = {} THEN "ret" ELSE "bind"]

\* bindVarToStructAttrWithFieldIndex, up to a recursive doStruct call: the
\* frames that replace the caller's.
BindStep(f, n, value, key, marker, how) ==
    LET st  == StructOf(f.cell)
        idx == f.fieldInfoMap[n].index
        fld == StructFields(st.type)[idx]
        cur == st.fields[idx]
        waiting(mode) ==
            [f EXCEPT !.pc = "bindWait",
                      !.wait = [field |-> n, index |-> idx, mode |-> mode,
                                key |-> key, marker |-> marker, how |-> how]]
    IN  CASE fld.type.kind = "int" ->
                << Bound(f, n, ScalarCell(value.s), key, marker, how) >>
          [] fld.type.kind = "unm" ->
                IF value.k = "bad"
                THEN << Ret([f EXCEPT !.failed = @ \cup {n}], "UnmarshalValue") >>
                ELSE << Bound(f, n, ScalarCell(value.s), key, marker, how) >>
          [] fld.type.kind = "struct" ->
                << waiting("struct"),
                   NewFrame("field", value, cur, NoEntries, <<>>, TRUE, "ptr") >>
          [] fld.type.kind = "ptrraw" ->
                << Dropped(f, n, marker) >>
          [] fld.type.kind = "raw" ->
                << Wrapped(f, n) >>
          [] fld.type.kind = "ptr" ->
                IF IsNilPtr(cur)
                THEN << waiting("ptrNew"),
                        NewFrame("field", value, ZeroStruct(fld.type.elem),
                                 NoEntries, <<>>, TRUE, "ptr") >>
                ELSE << waiting("ptrSet"),
                        NewFrame("field", value, cur.fields[1],
                                 NoEntries, <<>>, TRUE, "ptr") >>

\* The caller of a doStruct call made for an embedded field, after it.
ResumeScan(caller, callee) ==
    LET c1 == [caller EXCEPT !.cell =
                  WithStruct(caller.cell,
                             SetField(StructOf(caller.cell), caller.i, callee.cell)),
                             !.failedPtr =
                                IF callee.vivified /\ callee.err # ""
                                THEN @ \cup {caller.i} ELSE @]
    IN  IF callee.err # ""
        THEN Ret([c1 EXCEPT !.errField = callee.errField], callee.err)
        ELSE [c1 EXCEPT !.pc = "scan", !.i = @ + 1]

\* bindVarToReflectValue after its doStruct call: when the call failed the
\* reflect conversion of the value to the struct type panics.
ResumeBind(caller, callee) ==
    LET w == caller.wait
        st == StructOf(caller.cell)
        newCell == CASE w.mode = "struct" -> callee.cell
                     [] w.mode = "ptrSet" -> PtrTo(callee.cell)
                     [] w.mode = "ptrNew" ->
                            IF callee.err = "" THEN PtrTo(callee.cell)
                            ELSE st.fields[w.index]
    IN  IF callee.err = ""
        THEN Bound(caller, w.field, newCell, w.key, w.marker, w.how)
        ELSE [caller EXCEPT !.cell = WithStruct(caller.cell, SetField(st, w.index, newCell)),
                            !.failedPtr = IF w.mode = "ptrNew" THEN @ \cup {w.index} ELSE @,
                            !.failed = @ \cup {w.field},
                            !.panicAt = @ \cup {w.field},
                            !.panicking = TRUE,
                            !.pc = "ret"]

Top == stack[Len(stack)]

ReplaceTop(frames) == SubSeq(stack, 1, Len(stack) - 1) \o frames

(***************************************************************************)
(* The calls of the model: a destination type, the form of the             *)
(* destination, a source, the caller's key-to-attribute map and priority   *)
(* tags.                                                                   *)
(***************************************************************************)
TopTypes == {"User", "Account", "Tagged", "Inner", "Pair", "Holder", "Wrap",
             "Sealed", "Mixed", "Raw"}

KeysFor(T) ==
    CASE T = "User"    -> {sName, sname, sNAME}
      [] T = "Account" -> {sUserName, suser_name, susername}
      [] T = "Tagged"  -> {sx, sy, sz}
      [] T = "Inner"   -> {sX, sx}
      [] T = "Pair"    -> {sID, sid, sId}
      [] T = "Holder"  -> {sP, sIn}
      [] T = "Wrap"    -> {sX, sx}
      [] T = "Sealed"  -> {shidden, sX}
      [] T = "Mixed"   -> {sX, sY}
      [] T = "Raw"     -> {sC, sD}

GoodMap == MapVal((sX :> Scalar("v1")))
BadMap  == MapVal((sX :> BadVal))

ValsFor(T) ==
    CASE T \in {"Inner", "Wrap"} -> {NilVal, Scalar("v1"), BadVal}
      [] T = "Holder"            -> {NilVal, BadVal, GoodMap, BadMap}
      [] T \in {"Mixed", "Raw"}  -> {Scalar("v1"), BadVal}
      [] OTHER                   -> {NilVal, Scalar("v1"), Scalar("v2")}

\* Sources that are structs: a User and a pointer to it.
SourceCellsFor(T) ==
    IF T = "User"
    THEN LET u == StructCell("User", << ScalarCell("v1"), ScalarCell("v2") >>)
         IN  {u, PtrTo(u)}
    ELSE {}

\* The sources: nil, a scalar, the maps of at most MaxParams entries, and
\* the structs above.
ParamsFor(T) ==
    {NilVal, Scalar("v1")} \cup { CellVal(c) : c \in SourceCellsFor(T) } \cup
    { MapVal(m) : m \in UNION { [D -> ValsFor(T)] :
                      D \in {S \in SUBSET KeysFor(T) : Cardinality(S) <= MaxParams} } }

MappingsFor(T) ==
    IF T = "User"
    THEN {NoEntries, (sNAME :> sInfo), (sNAME :> sName), (sNAME :> sInfo) @@ (sname :> sInfo)}
    ELSE {NoEntries}

PriorityTagsFor(T) ==
    IF T = "Tagged" THEN {<<>>, <<"a", "b">>, <<"b", "a">>} ELSE {<<>>}

\* What the caller's pointer points to: a struct (fresh or already filled),
\* a nil pointer to a struct, a pointer to a fresh struct.
DestCellsFor(T) ==
    {ZeroStruct(T), FilledStruct(T, "old"), NilPtr(T), PtrTo(ZeroStruct(T))}

Pending == [done |-> FALSE, err |-> "", vivified |-> FALSE, panicked |-> FALSE,
            failedPtr |-> {}, failed |-> {}, steps |-> {}, panicAt |-> {},
            errField |-> <<>>]

\* No earlier call.
NoRun == [done |-> FALSE, err |-> "", dest |-> ScalarCell("")]

\* The `pointer` argument: a pointer to one of the cells above ("ptr"), the
\* nil interface ("nil"), a struct passed by value ("nonptr") or a nil *T
\* ("nilptr").  The last three point to nothing; their cell stands for the
\* caller's own value, which the call cannot reach.
DestsFor(T) ==
    { [ptrKind |-> "ptr", cell |-> c] : c \in DestCellsFor(T) } \cup
    { [ptrKind |-> "nil", cell |-> NilPtr(T)],
      [ptrKind |-> "nonptr", cell |-> ZeroStruct(T)],
      [ptrKind |-> "nilptr", cell |-> NilPtr(T)] }

Init ==
    \E T \in TopTypes :
      \E p \in ParamsFor(T), mp \in MappingsFor(T), pt \in PriorityTagsFor(T),
         d \in DestsFor(T) :
        /\ input = [type |-> T, params |-> p, mapping |-> mp, priorityTag |-> pt,
                    cell |-> d.cell, ptrKind |-> d.ptrKind]
        /\ stack = << NewFrame("top", p, d.cell, mp, pt, FALSE, d.ptrKind) >>
        /\ outcome = Pending
        /\ dest = d.cell
        /\ previous = NoRun
        /\ cachedStructsInfoMap = NoEntries
        /\ heap = NoEntries
        /\ callers = NoEntries
        /\ customConvTypeMap = {}
        /\ poolUsedParamsKeyOrTagNameMap = {}
        /\ keyMaps = NoEntries
        /\ users = NoEntries

(***************************************************************************)
(* The steps of a call.                                                    *)
(***************************************************************************)
Enter ==
    /\ stack # <<>>
    /\ Top.pc = "enter"
    /\ stack' = ReplaceTop(<< EnterStep(Top) >>)
    /\ UNCHANGED <<input, outcome, dest, previous, cacheVars, poolVars>>

ScanField ==
    /\ stack # <<>>
    /\ Top.pc = "scan"
    /\ Top.i <= NumField(StructOf(Top.cell).type)
    /\ stack' = ReplaceTop(ScanStep(Top))
    /\ UNCHANGED <<input, outcome, dest, previous, cacheVars, poolVars>>

\* After the scan: nothing to bind, or the two look-ups.
Resolve ==
    /\ stack # <<>>
    /\ Top.pc = "scan"
    /\ Top.i > NumField(StructOf(Top.cell).type)
    /\ IF DOMAIN Top.fieldInfoMap = {}
       THEN stack' = ReplaceTop(<< Ret(Top, "") >>)
       ELSE \E pick \in OverridePicks(Top) :
              stack' = ReplaceTop(<< [Top EXCEPT
                          !.fieldInfoMap = OverrideLookup(Top, ExactLookup(Top), pick),
                          !.todo = DOMAIN Top.fieldInfoMap,
                          !.pc = "bind"] >>)
    /\ UNCHANGED <<input, outcome, dest, previous, cacheVars, poolVars>>

\* One iteration of the binding loop; the range over fieldInfoMap takes the
\* fields in any order.
BindField ==
    /\ stack # <<>>
    /\ Top.pc = "bind"
    /\ \E n \in Top.todo :
         LET fi == Top.fieldInfoMap[n] IN
         IF fi.val.k # "nil"
         THEN stack' = ReplaceTop(BindStep(Top, n, fi.val, fi.src, fi.tag, fi.how))
         ELSE \E r \in fuzzyMatchingFieldName(n, Top.params.m, Top.usedParamsKey) :
                LET f == [Top EXCEPT !.fuzzyTried =
                            Put(@, n, FuzzyKeys(n, Top.params.m, Top.usedParamsKey))]
                IN  stack' = ReplaceTop(
                                IF r.val.k # "nil"
                                THEN BindStep(f, n, r.val, r.key, r.key, "fuzzy")
                                ELSE << Skipped(f, n) >>)
    /\ UNCHANGED <<input, outcome, dest, previous, cacheVars, poolVars>>

\* The return of a nested call to the doStruct call that made it.
ReturnInner ==
    /\ Len(stack) > 1
    /\ Top.pc = "ret"
    /\ LET callee == RunDefers(Top, Top.defers)
           caller == stack[Len(stack) - 1]
       IN  stack' = SubSeq(stack, 1, Len(stack) - 2) \o
                    << IF caller.pc = "scanWait" THEN ResumeScan(caller, callee)
                       ELSE ResumeBind(caller, callee) >>
    /\ UNCHANGED <<input, outcome, dest, previous, cacheVars, poolVars>>

\* The return of the outermost call to the caller.
ReturnTop ==
    /\ Len(stack) = 1
    /\ Top.pc = "ret"
    /\ LET f == RunDefers(Top, Top.defers) IN
         /\ outcome' = [done |-> TRUE, err |-> f.err, vivified |-> Top.vivified,
                        panicked |-> Top.panicking, failedPtr |-> Top.failedPtr,
                        failed |-> Top.failed, steps |-> Top.steps,
                        panicAt |-> Top.panicAt, errField |-> f.errField]
         /\ dest' = f.cell
    /\ stack' = <<>>
    /\ UNCHANGED <<input, previous, cacheVars, poolVars>>

Next == Enter \/ ScanField \/ Resolve \/ BindField \/ ReturnInner \/ ReturnTop

Spec == Init /\ [][Next]_vars

(***************************************************************************)
(* Two calls with the same arguments, one after the other, each into a     *)
(* destination of its own that holds the zero value.                       *)
(***************************************************************************)
InitTwice ==
    /\ Init
    /\ input.ptrKind = "ptr"
    /\ input.cell \in {ZeroStruct(input.type), NilPtr(input.type)}

\* The caller keeps the result of the first call and calls again.
Again ==
    /\ outcome.done
    /\ ~previous.done
    /\ previous' = [done |-> TRUE, err |-> outcome.err, dest |-> dest]
    /\ stack' = << NewFrame("top", input.params, input.cell, input.mapping,
                            input.priorityTag, FALSE, input.ptrKind) >>
    /\ outcome' = Pending
    /\ dest' = input.cell
    /\ UNCHANGED <<input, cacheVars, poolVars>>

NextTwice == Next \/ Again

SpecTwice == InitTwice /\ [][NextTwice]_vars

(***************************************************************************)
(* The struct-metadata cache.  A table is a cachedStructInfo; what Go      *)
(* reaches through pointers is reached here through positions: `bases`     *)
(* holds the cachedFieldInfoBase values and `infos` the cachedFieldInfo    *)
(* values of a table, in the order of their allocation.  Field indexes     *)
(* count from 1, as StructFields does.  A []int is a slice: the position   *)
(* of its backing array in `arrays` (0 for the slice without one) and its  *)
(* length; a backing array has its capacity and its elements, 0 where none *)
(* was written.                                                            *)
(***************************************************************************)
EmptyStructInfo ==
    [tagOrFiledNameToFieldInfoMap |-> NoEntries, fieldConvertInfos |-> <<>>,
     infos |-> <<>>, bases |-> <<>>, arrays |-> <<>>]

\* make([]int, 0).
EmptySlice == [arr |-> 0, len |-> 0]

\* cap(s); a slice whose array is not among `arrays` has no room.
Cap(csi, sl) ==
    IF sl.arr \in 1..Len(csi.arrays) THEN csi.arrays[sl.arr].cap ELSE 0

\* The elements of a slice, 0 where its array is not among `arrays`.
PathOf(csi, sl) ==
    IF sl.arr \in 1..Len(csi.arrays)
    THEN SubSeq(csi.arrays[sl.arr].data, 1, sl.len)
    ELSE [j \in 1..sl.len |-> 0]

\* The capacity append gives a slice of ints that is full: 1, then twice the old.
GrowCap(c) == IF c = 0 THEN 1 ELSE 2 * c

\* append(fieldIndexes, i): in place when the backing array has room, into
\* a new array otherwise.  Gives the table and the slice returned.
appendInt(csi, sl, x) ==
    IF sl.len < Cap(csi, sl)
    THEN [csi |-> [csi EXCEPT !.arrays[sl.arr].data[sl.len + 1] = x],
          slice |-> [sl EXCEPT !.len = @ + 1]]
    ELSE LET newcap == GrowCap(Cap(csi, sl))
             data == [j \in 1..newcap |->
                         IF j <= sl.len THEN PathOf(csi, sl)[j]
                         ELSE IF j = sl.len + 1 THEN x ELSE 0]
         IN  [csi |-> [csi EXCEPT !.arrays = Append(@, [cap |-> newcap, data |-> data])],
              slice |-> [arr |-> Len(csi.arrays) + 1, len |-> sl.len + 1]]

\* A variant that takes the first priority tag the field carries, also when
\* its name is empty.
RECURSIVE genPriorityTagAndFieldName_KeepEmpty(_, _)
genPriorityTagAndFieldName_KeepEmpty(field, priorityTags) ==
    IF priorityTags = <<>> THEN << field.name >>
    ELSE LET tag == Head(priorityTags) IN
         IF TagPresent(field, tag)
         THEN << TrimSpace(BeforeComma(TagLookup(field, tag))), field.name >>
         ELSE genPriorityTagAndFieldName_KeepEmpty(field, Tail(priorityTags))

\* genPriorityTagAndFieldName: the name of the first priority tag the field
\* carries with a name that is not empty, then the declared name.
RECURSIVE genPriorityTagAndFieldName(_, _)
genPriorityTagAndFieldName(field, priorityTags) ==
    IF priorityTags = <<>> THEN << field.name >>
    ELSE LET tag == Head(priorityTags) IN
         IF TagPresent(field, tag) /\ TrimSpace(BeforeComma(TagLookup(field, tag))) # <<>>
         THEN << TrimSpace(BeforeComma(TagLookup(field, tag))), field.name >>
         ELSE genPriorityTagAndFieldName(field, Tail(priorityTags))

\* checkTypeMaybeIsCustomConvert: one pointer level is stripped.
TypeString(ty) == IF ty.kind \in {"struct", "ptr"} THEN ty.elem ELSE ty.kind

checkTypeMaybeIsCustomConvert(fieldType, registered) ==
    TypeString(fieldType) \in registered

\* checkTypeIsImplCommonInterface: the type implements an unmarshal interface.
checkTypeIsImplCommonInterface(field) == field.type.kind = "unm"

\* genFieldConvertFunc: the converter chosen by the name of the type.
genFieldConvertFunc(ty) == IF ty.kind = "int" THEN "int" ELSE "nil"

\* The loop of AddField over priorityTagAndFieldName for the base at b.
RECURSIVE AddNames(_, _, _, _)
AddNames(csi, b, field, names) ==
    IF names = <<>> THEN csi
    ELSE LET tagOrFieldName == Head(names)
             newFieldInfo   == [base |-> b,
                                isField |-> tagOrFieldName = field.name,
                                removeSymbolsFieldName |-> RemoveSymbols(field.name),
                                lastFuzzKey |-> field.name]
             at == Len(csi.infos) + 1
             c1 == [csi EXCEPT
                      !.infos = Append(@, newFieldInfo),
                      !.tagOrFiledNameToFieldInfoMap = Put(@, tagOrFieldName, at),
                      !.fieldConvertInfos =
                          IF newFieldInfo.isField THEN Append(@, at) ELSE @]
         IN  AddNames(c1, b, field, Tail(names))

\* cachedStructInfo.AddField.
AddField(csi, field, fieldIndexes, priorityTags, registered) ==
    IF field.name \notin DOMAIN csi.tagOrFiledNameToFieldInfoMap
    THEN LET baseInfo ==
                [isCommonInterface |-> checkTypeIsImplCommonInterface(field),
                 structField |-> field,
                 fieldIndexes |-> fieldIndexes,
                 convertFunc |-> genFieldConvertFunc(field.type),
                 isCustomConvert |-> checkTypeMaybeIsCustomConvert(field.type, registered),
                 priorityTagAndFieldName |-> genPriorityTagAndFieldName(field, priorityTags),
                 otherSameNameFieldIndex |-> <<>>]
         IN  AddNames([csi EXCEPT !.bases = Append(@, baseInfo)],
                      Len(csi.bases) + 1, field, baseInfo.priorityTagAndFieldName)
    ELSE LET alreadyExistFieldInfo ==
                csi.infos[csi.tagOrFiledNameToFieldInfoMap[field.name]]
         IN  [csi EXCEPT !.bases[alreadyExistFieldInfo.base].otherSameNameFieldIndex =
                            Append(@, fieldIndexes)]

\* The struct type an embedded field leads to, "" when it leads to none.
EmbeddedStruct(field) ==
    IF field.anonymous /\ field.type.kind \in {"struct", "ptr"} THEN field.type.elem
    ELSE ""

\* parseStruct as one computation: the fields from the i-th on.
RECURSIVE parseStruct(_, _, _, _, _, _)
parseStruct(structType, fieldIndexes, structInfo, priorityTagArray, registered, i) ==
    IF i > NumField(structType) THEN structInfo
    ELSE LET structField == StructFields(structType)[i] IN
         IF ~IsLetterUpper(structField.name[1])
         THEN parseStruct(structType, fieldIndexes, structInfo, priorityTagArray,
                          registered, i + 1)
         ELSE LET forField == appendInt(structInfo, fieldIndexes, i)
                  added == AddField(forField.csi, structField, forField.slice,
                                    priorityTagArray, registered)
                  forInner == appendInt(added, fieldIndexes, i)
                  inner == IF EmbeddedStruct(structField) # ""
                           THEN parseStruct(EmbeddedStruct(structField),
                                            forInner.slice, forInner.csi,
                                            priorityTagArray, registered, 1)
                           ELSE added
              IN  parseStruct(structType, fieldIndexes, inner, priorityTagArray,
                              registered, i + 1)

\* A Load that never finds the type.
getCachedConvertStructInfo_Miss(structType) == [ok |-> FALSE, structInfo |-> 0]

\* getCachedConvertStructInfo: the Load of the sync.Map.
getCachedConvertStructInfo(structType) ==
    IF structType \in DOMAIN cachedStructsInfoMap
    THEN [ok |-> TRUE, structInfo |-> cachedStructsInfoMap[structType]]
    ELSE [ok |-> FALSE, structInfo |-> 0]

\* One cachedStructInfo shared by all the callers.
NewStructInfo_Shared(p) == 1

\* The address of the cachedStructInfo caller p allocates: its own.
NewStructInfo(p) == p

Callers == 1..NumCallers

\* The types getCachedStructInfo is called with; "int" is not a struct.
CacheTypes == {"User", "Tagged", "Pair", "Wrap", "Echo", "int"}

IsStructType(T) == T # "int"

Registrable == {"Inner"}

\* The types of a second population of callers: fields whose tags and names
\* coincide, embedding four deep, a field of a registrable type.
TableTypes == {"Clash", "Deep", "Wrap"}

\* A caller before its call; `types` is what it may call with.
Idle ==
    [pc |-> "idle", type |-> "", priorityTag |-> <<>>, structInfo |-> 0,
     work |-> <<>>, built |-> FALSE, after |-> {}, result |-> 0,
     types |-> CacheTypes]

InitCache ==
    /\ cachedStructsInfoMap = NoEntries
    /\ heap = [a \in Callers |-> EmptyStructInfo]
    /\ callers = [p \in Callers |-> Idle]
    /\ customConvTypeMap \in SUBSET Registrable
    /\ input = [type |-> "", params |-> NilVal, mapping |-> NoEntries,
                priorityTag |-> <<>>, cell |-> ScalarCell(""), ptrKind |-> "nil"]
    /\ stack = <<>>
    /\ outcome = Pending
    /\ dest = ScalarCell("")
    /\ previous = NoRun
    /\ poolUsedParamsKeyOrTagNameMap = {}
    /\ keyMaps = NoEntries
    /\ users = NoEntries

\* The callers whose call has returned.
Returned == {q \in Callers : callers[q].pc = "done"}

\* getCachedStructInfo up to the call of parseStruct: a type that is not a
\* struct gives nil, a cached type its table; otherwise a table is allocated.
\* The ghost field `after` records the calls that had returned by then.
GetCached(p) ==
    /\ callers[p].pc = "idle"
    /\ \E T \in callers[p].types : \E pt \in PriorityTagsFor(T) :
         LET c  == [callers[p] EXCEPT !.type = T, !.priorityTag = pt,
                                      !.after = Returned]
             ld == getCachedConvertStructInfo(T)
         IN  IF ~IsStructType(T)
             THEN /\ callers' = [callers EXCEPT ![p] = [c EXCEPT !.pc = "done"]]
                  /\ heap' = heap
             ELSE IF ld.ok
             THEN /\ callers' = [callers EXCEPT ![p] =
                                   [c EXCEPT !.pc = "done", !.result = ld.structInfo]]
                  /\ heap' = heap
             ELSE /\ callers' = [callers EXCEPT ![p] =
                                   [c EXCEPT !.pc = "parse", !.built = TRUE,
                                             !.structInfo = NewStructInfo(p),
                                             !.work = << [type |-> T,
                                                          fieldIndexes |-> EmptySlice,
                                                          i |-> 1] >>]]
                  /\ heap' = [heap EXCEPT ![NewStructInfo(p)] = EmptyStructInfo]
    /\ UNCHANGED <<cachedStructsInfoMap, customConvTypeMap, structVars, poolVars>>

\* One iteration of the loop of the innermost parseStruct activation.
ParseField(p) ==
    /\ callers[p].pc = "parse"
    /\ callers[p].work # <<>>
    /\ LET c   == callers[p]
           d   == Len(c.work)
           top == c.work[d]
       IN  /\ top.i <= NumField(top.type)
           /\ LET structField == StructFields(top.type)[top.i]
                  next == [c.work EXCEPT ![d].i = @ + 1]
              IN  IF ~IsLetterUpper(structField.name[1])
                  THEN /\ callers' = [callers EXCEPT ![p].work = next]
                       /\ heap' = heap
                  ELSE LET forField == appendInt(heap[c.structInfo],
                                                 top.fieldIndexes, top.i)
                            added == AddField(forField.csi, structField,
                                              forField.slice,
                                              PriorityTagArray(c.priorityTag),
                                              customConvTypeMap)
                            forInner == appendInt(added, top.fieldIndexes, top.i)
                       IN  IF EmbeddedStruct(structField) # ""
                           THEN /\ heap' = [heap EXCEPT ![c.structInfo] = forInner.csi]
                                /\ callers' = [callers EXCEPT ![p].work =
                                      Append(next,
                                             [type |-> EmbeddedStruct(structField),
                                              fieldIndexes |-> forInner.slice,
                                              i |-> 1])]
                           ELSE /\ heap' = [heap EXCEPT ![c.structInfo] = added]
                                /\ callers' = [callers EXCEPT ![p].work = next]
    /\ UNCHANGED <<cachedStructsInfoMap, customConvTypeMap, structVars, poolVars>>

\* The return of the innermost parseStruct activation.
ParseReturn(p) ==
    /\ callers[p].pc = "parse"
    /\ callers[p].work # <<>>
    /\ LET c   == callers[p]
           top == c.work[Len(c.work)]
       IN  /\ top.i > NumField(top.type)
           /\ callers' = [callers EXCEPT
                            ![p].work = SubSeq(c.work, 1, Len(c.work) - 1),
                            ![p].pc = IF Len(c.work) = 1 THEN "store" ELSE "parse"]
    /\ UNCHANGED <<cachedStructsInfoMap, heap, customConvTypeMap, structVars, poolVars>>

\* A Store made while parseStruct is still running.
SetCached_BeforeParse(p) ==
    /\ callers[p].pc = "parse"
    /\ cachedStructsInfoMap' =
          Put(cachedStructsInfoMap, callers[p].type, callers[p].structInfo)
    /\ callers' = [callers EXCEPT ![p].result = callers[p].structInfo]
    /\ UNCHANGED <<heap, customConvTypeMap, structVars, poolVars>>

\* setCachedConvertStructInfo and the return of getCachedStructInfo.
SetCached(p) ==
    /\ callers[p].pc = "store"
    /\ cachedStructsInfoMap' =
          Put(cachedStructsInfoMap, callers[p].type, callers[p].structInfo)
    /\ callers' = [callers EXCEPT ![p].pc = "done",
                                  ![p].result = callers[p].structInfo]
    /\ UNCHANGED <<heap, customConvTypeMap, structVars, poolVars>>

NextCache ==
    \E p \in Callers : GetCached(p) \/ ParseField(p) \/ ParseReturn(p) \/ SetCached(p)

SpecCache == InitCache /\ [][NextCache]_vars

\* registerCacheConvFieldCustomType: one pointer level is stripped.
Register(ty) ==
    /\ customConvTypeMap' = customConvTypeMap \cup {TypeString(ty)}
    /\ UNCHANGED <<cachedStructsInfoMap, heap, callers, structVars, poolVars>>

\* The callers of the second population, no converter registered yet.
InitTables ==
    /\ cachedStructsInfoMap = NoEntries
    /\ heap = [a \in Callers |-> EmptyStructInfo]
    /\ callers = [p \in Callers |-> [Idle EXCEPT !.types = TableTypes]]
    /\ customConvTypeMap = {}
    /\ input = [type |-> "", params |-> NilVal, mapping |-> NoEntries,
                priorityTag |-> <<>>, cell |-> ScalarCell(""), ptrKind |-> "nil"]
    /\ stack = <<>>
    /\ outcome = Pending
    /\ dest = ScalarCell("")
    /\ previous = NoRun
    /\ poolUsedParamsKeyOrTagNameMap = {}
    /\ keyMaps = NoEntries
    /\ users = NoEntries

NextTables ==
    \/ NextCache
    \/ \E ty \in {TStruct(T) : T \in Registrable} \cup {TPtr(T) : T \in Registrable} :
          Register(ty)

SpecTables == InitTables /\ [][NextTables]_vars

(***************************************************************************)
(* The pool of consumed-keys maps.  A map is known by its address; a call  *)
(* takes a map from the pool, marks keys in it and puts it back.  The      *)
(* sync.Pool hands out any map it holds, or a new one from its New         *)
(* function.                                                               *)
(***************************************************************************)
Users == 1..NumUsers

PoolKeys == {sName, sname, sNAME}

NoMap == 0

\* The New function of the pool: make(map[string]struct{}).
NewKeyMap == {}

\* A put that leaves the keys in the map.
poolPutUsedParamsKeyOrTagNameMap_Keep(m) == keyMaps

\* poolPutUsedParamsKeyOrTagNameMap up to the Put of the pool: the loop
\* deletes every key of the map.
poolPutUsedParamsKeyOrTagNameMap(m) == [keyMaps EXCEPT ![m] = {}]

InitPool ==
    /\ poolUsedParamsKeyOrTagNameMap = {}
    /\ keyMaps = NoEntries
    /\ users = [u \in Users |-> [pc |-> "idle", m |-> NoMap, got |-> {}]]
    /\ cachedStructsInfoMap = NoEntries
    /\ heap = NoEntries
    /\ callers = NoEntries
    /\ customConvTypeMap = {}
    /\ input = [type |-> "", params |-> NilVal, mapping |-> NoEntries,
                priorityTag |-> <<>>, cell |-> ScalarCell(""), ptrKind |-> "nil"]
    /\ stack = <<>>
    /\ outcome = Pending
    /\ dest = ScalarCell("")
    /\ previous = NoRun

\* poolGetUsedParamsKeyOrTagNameMap: a map of the pool, or a new one.  The
\* ghost field `got` records the keys the map held when it was handed out.
PoolGet(u) ==
    /\ users[u].pc = "idle"
    /\ \/ \E m \in poolUsedParamsKeyOrTagNameMap :
            /\ poolUsedParamsKeyOrTagNameMap' = poolUsedParamsKeyOrTagNameMap \ {m}
            /\ keyMaps' = keyMaps
            /\ users' = [users EXCEPT ![u] = [pc |-> "holding", m |-> m,
                                              got |-> keyMaps[m]]]
       \/ /\ Cardinality(DOMAIN keyMaps) < MaxMaps
          /\ LET m == Cardinality(DOMAIN keyMaps) + 1 IN
               /\ keyMaps' = Put(keyMaps, m, NewKeyMap)
               /\ users' = [users EXCEPT ![u] = [pc |-> "holding", m |-> m,
                                                 got |-> NewKeyMap]]
          /\ UNCHANGED poolUsedParamsKeyOrTagNameMap
    /\ UNCHANGED <<structVars, cacheVars>>

\* The call marks a key as consumed in the map it holds.
MarkKey(u) ==
    /\ users[u].pc = "holding"
    /\ \E k \in PoolKeys \ keyMaps[users[u].m] :
          keyMaps' = [keyMaps EXCEPT ![users[u].m] = @ \cup {k}]
    /\ UNCHANGED <<poolUsedParamsKeyOrTagNameMap, users, structVars, cacheVars>>

\* poolPutUsedParamsKeyOrTagNameMap: the map is cleared, then put back.
PoolPut(u) ==
    /\ users[u].pc = "holding"
    /\ keyMaps' = poolPutUsedParamsKeyOrTagNameMap(users[u].m)
    /\ poolUsedParamsKeyOrTagNameMap' = poolUsedParamsKeyOrTagNameMap \cup {users[u].m}
    /\ users' = [users EXCEPT ![u] = [pc |-> "idle", m |-> NoMap, got |-> {}]]
    /\ UNCHANGED <<structVars, cacheVars>>

NextPool == \E u \in Users : PoolGet(u) \/ MarkKey(u) \/ PoolPut(u)

SpecPool == InitPool /\ [][NextPool]_vars

(***************************************************************************)
(* Properties of doStruct.                                                 *)
(***************************************************************************)
Frames == {stack[j] : j \in 1..Len(stack)}

\* The fields of a frame that were bound by the way `how`.
BoundBy(f, how) == {n \in DOMAIN f.bound : f.bound[n].how = how}

\* C1: when the outermost call auto-vivified a nil pointer to a struct and
\* then fails, by an error return or by a recovered panic, the destination
\* pointer is nil when the call returns.
C1_ResetOnFailure ==
    (outcome.done /\ outcome.vivified /\ outcome.err # "") => IsNilPtr(dest)

\* C1, the error returns alone: the reset is run when doStruct returns an error.
C1_ResetOnErrorReturn ==
    (outcome.done /\ outcome.vivified /\ outcome.err # "" /\ ~outcome.panicked)
        => IsNilPtr(dest)

\* C2: when the conversion of the value bound to a nil pointer-to-struct
\* field (named or embedded) of the destination fails, the call returns an
\* error and the field is nil afterwards.
C2_FailedPointerFieldIsNil ==
    (outcome.done /\ outcome.failedPtr # {})
        => /\ outcome.err # ""
           /\ ~IsNilPtr(dest) =>
                 \A i \in outcome.failedPtr : IsNilPtr(StructOf(dest).fields[i])

\* C3: within one call no key that satisfied a field's exact or tag match
\* also satisfies another field's fuzzy match.
C3_ExactKeyNotFuzzyMatched ==
    \A f \in Frames :
      \A n1 \in BoundBy(f, "exact"), n2 \in BoundBy(f, "fuzzy") :
        f.bound[n1].key # f.bound[n2].key

\* C4: within one call the key that supplied a bound field's value is in the
\* consumed set from then on, and no field bound later is fuzzy-matched to it.
C4_BoundKeyConsumed ==
    \A f \in Frames :
      /\ \A n \in DOMAIN f.bound : f.bound[n].key \in f.usedParamsKey
      /\ \A n1 \in DOMAIN f.bound, n2 \in BoundBy(f, "fuzzy") :
            f.bound[n1].ord < f.bound[n2].ord => f.bound[n1].key # f.bound[n2].key

\* A call that ran to its end without an error.
Completed(f) == f.pc = "ret" /\ f.err = "" /\ ~f.panicking

\* The field of struct type T declared under the name n.
FieldNamed(T, n) ==
    StructFields(T)[CHOOSE i \in 1..NumField(T) : StructFields(T)[i].name = n]

\* C5: when the mapping sends a key k of the source to the bindable field F,
\* F receives the value at k, whatever keys equal to F's tag or name the
\* source holds; a field without such an override takes the entry at its tag
\* or name (exact match) before any fuzzy match.
C5_OverrideThenExact ==
    \A f \in Frames :
      Completed(f) =>
        \A n \in DOMAIN f.fieldInfoMap :
          /\ OverrideKeys(f, n) # {} =>
                /\ n \in BoundBy(f, "override")
                /\ f.bound[n].key \in OverrideKeys(f, n)
          /\ (OverrideKeys(f, n) = {} /\ f.fieldInfoMap[n].tag \in DOMAIN f.params.m) =>
                /\ n \in BoundBy(f, "exact")
                /\ f.bound[n].key = f.fieldInfoMap[n].tag

\* No entry of the source of the call holds the untyped nil.
AllEntriesHoldValues(f) == \A k \in DOMAIN f.params.m : f.params.m[k].k # "nil"

\* C5 for the sources whose entries all hold a value.
C5_OverrideThenExactOfValues ==
    \A f \in Frames :
      (Completed(f) /\ AllEntriesHoldValues(f)) =>
        \A n \in DOMAIN f.fieldInfoMap :
          /\ OverrideKeys(f, n) # {} =>
                /\ n \in BoundBy(f, "override")
                /\ f.bound[n].key \in OverrideKeys(f, n)
          /\ (OverrideKeys(f, n) = {} /\ f.fieldInfoMap[n].tag \in DOMAIN f.params.m) =>
                /\ n \in BoundBy(f, "exact")
                /\ f.bound[n].key = f.fieldInfoMap[n].tag

\* The priority tags a field carries, in the order of priority.
PresentTags(field, priorityTags) ==
    SelectSeq(priorityTags, LAMBDA t : TagPresent(field, t))

\* The name of a tag of a field: the text before the first ',', trimmed.
TagName(field, tag) == TrimSpace(BeforeComma(TagLookup(field, tag)))

\* C6: the primary match key of a field that carries several priority tags
\* is the name of the tag that comes first in the priority order, and the
\* field is bound from the source entry at that key.
C6_EarliestTagIsPrimaryKey ==
    \A f \in Frames :
      \A n \in DOMAIN f.fieldInfoMap :
        LET field   == FieldNamed(StructOf(f.cell).type, n)
            present == PresentTags(field, PriorityTagArray(f.priorityTag))
        IN  Len(present) >= 2 =>
              LET primary == TagName(field, Head(present)) IN
              /\ f.fieldInfoMap[n].tag = primary
              /\ (Completed(f) /\ primary \in DOMAIN f.params.m) =>
                    /\ n \in DOMAIN f.bound
                    /\ f.bound[n].key = primary

\* C6 for the fields whose first priority tag has a name, and the sources
\* whose entries all hold a value.
C6_EarliestNamedTagOfValues ==
    \A f \in Frames :
      \A n \in DOMAIN f.fieldInfoMap :
        LET field   == FieldNamed(StructOf(f.cell).type, n)
            present == PresentTags(field, PriorityTagArray(f.priorityTag))
        IN  (Len(present) >= 2 /\ TagName(field, Head(present)) # <<>>) =>
              LET primary == TagName(field, Head(present)) IN
              /\ f.fieldInfoMap[n].tag = primary
              /\ (Completed(f) /\ AllEntriesHoldValues(f)
                    /\ primary \in DOMAIN f.params.m) =>
                    /\ n \in DOMAIN f.bound
                    /\ f.bound[n].key = primary

\* The struct the destination of the outermost call held, or was given.
InitialStruct ==
    IF IsNilPtr(input.cell) THEN ZeroStruct(input.type) ELSE StructOf(input.cell)

\* C7: a field with no override and no entry at its tag or name is bound to
\* the value of a key not yet consumed whose letters and digits equal the
\* field name's, whatever the case; when there is no such key the field is
\* not assigned.
C7_FuzzyFallback ==
    \A f \in Frames :
      \A n \in DOMAIN f.fuzzyTried :
        (OverrideKeys(f, n) = {} /\ f.fieldInfoMap[n].tag \notin DOMAIN f.params.m) =>
          /\ (f.fuzzyTried[n] # {} /\ Completed(f)) =>
                /\ n \in BoundBy(f, "fuzzy")
                /\ f.bound[n].key \in f.fuzzyTried[n]
          /\ f.fuzzyTried[n] = {} =>
                /\ n \notin DOMAIN f.bound
                /\ f.call = "top" =>
                      LET i == f.fieldInfoMap[n].index
                      IN  StructOf(f.cell).fields[i] = InitialStruct.fields[i]

\* C7 for the sources whose entries all hold a value.
C7_FuzzyFallbackOfValues ==
    \A f \in Frames :
      \A n \in DOMAIN f.fuzzyTried :
        (AllEntriesHoldValues(f) /\ OverrideKeys(f, n) = {}
            /\ f.fieldInfoMap[n].tag \notin DOMAIN f.params.m) =>
          /\ (f.fuzzyTried[n] # {} /\ Completed(f)) =>
                /\ n \in BoundBy(f, "fuzzy")
                /\ f.bound[n].key \in f.fuzzyTried[n]
          /\ f.fuzzyTried[n] = {} => n \notin DOMAIN f.bound

\* The keys of the source of the outermost call that match the name ID.
EntriesForID ==
    IF input.params.k = "map" THEN FuzzyKeys(sID, input.params.m, {}) ELSE {}

Started(T) == {p \in Callers : callers[p].pc # "idle" /\ callers[p].type = T}

\* The calls for T were made one after another: of any two, one had returned
\* when the other was made.
OneAfterAnother(T) ==
    \A p, q \in Started(T) :
        p = q \/ p \in callers[q].after \/ q \in callers[p].after

\* C8: when the getCachedStructInfo calls for a struct type are made one
\* after another, the first of them runs parseStruct and no later one does:
\* each later call returns the table the first one stored.
C8_BuiltOnce ==
    \A T \in CacheTypes :
      (IsStructType(T) /\ OneAfterAnother(T) /\ Started(T) # {}) =>
        \E b \in Started(T) :
          /\ callers[b].built
          /\ \A q \in Started(T) \ {b} :
                /\ b \in callers[q].after
                /\ ~callers[q].built
                /\ callers[q].pc = "done"
                /\ callers[q].result = callers[b].structInfo
                /\ callers[q].result = cachedStructsInfoMap[T]

C8_Witness ==
    \E T \in CacheTypes : \E b, q \in Started(T) :
        /\ IsStructType(T) /\ OneAfterAnother(T)
        /\ b # q /\ b \in callers[q].after
        /\ callers[q].pc = "done"
        /\ callers[q].result = callers[b].structInfo

\* The table a single build for the type and the tag list produces.
SingleBuild(T, priorityTag) ==
    parseStruct(T, EmptySlice, EmptyStructInfo, PriorityTagArray(priorityTag),
                customConvTypeMap, 1)

\* The callers that asked for T gave the same tag list.
SameTagList(T) ==
    \A p, q \in Started(T) : callers[p].priorityTag = callers[q].priorityTag

\* C9: when the callers asking for a struct type give the same tag list,
\* also at the same time, the table each of them is returned equals the
\* table of a single build, and so does the table the cache holds.
C9_ConcurrentBuildsAgree ==
    \A T \in CacheTypes :
      (IsStructType(T) /\ SameTagList(T)) =>
        \A p \in Started(T) :
          /\ callers[p].pc = "done" =>
                heap[callers[p].result] = SingleBuild(T, callers[p].priorityTag)
          /\ T \in DOMAIN cachedStructsInfoMap =>
                heap[cachedStructsInfoMap[T]] = SingleBuild(T, callers[p].priorityTag)

C9_Witness ==
    \E T \in CacheTypes : \E p, q \in Started(T) :
        /\ IsStructType(T) /\ SameTagList(T)
        /\ p # q
        /\ callers[p].built /\ callers[q].built
        /\ callers[p].pc = "done" /\ callers[q].pc = "done"
        /\ callers[p].result # callers[q].result
        /\ cachedStructsInfoMap[T] = callers[q].result

(***************************************************************************)
(* A source that normalizes to an empty mapping.                           *)
(***************************************************************************)
EmptyMapping ==
    /\ input.ptrKind = "ptr"
    /\ input.params.k = "map"
    /\ DOMAIN input.params.m = {}

\* C16: a call whose source normalizes to an empty mapping returns success
\* and leaves the destination exactly as it was before the call; a nil
\* destination pointer is still nil afterwards.
C16_EmptyMappingLeavesDestination ==
    (outcome.done /\ EmptyMapping) => (outcome.err = "" /\ dest = input.cell)

\* What holds of an empty mapping: the call succeeds, and a destination
\* that already points to a struct keeps its value.
C16_EmptyMappingOfAllocated ==
    (outcome.done /\ EmptyMapping) =>
        /\ outcome.err = ""
        /\ ~IsNilPtr(input.cell) => dest = input.cell

(***************************************************************************)
(* A destination that is nil, not a pointer, or a nil pointer.             *)
(***************************************************************************)
InvalidDestination == input.ptrKind \in {"nil", "nonptr", "nilptr"}

\* C13: for every source value, a call whose destination is nil, is not a
\* pointer, or is a nil pointer returns the invalid-parameter error.
C13_InvalidDestinationRejected ==
    (outcome.done /\ InvalidDestination) => outcome.err = "InvalidParameter"

\* What holds: the error is returned for every source that is not nil.
C13_InvalidDestinationOfNonNilSource ==
    (outcome.done /\ InvalidDestination /\ input.params.k # "nil") =>
        outcome.err = "InvalidParameter"

(***************************************************************************)
(* Struct types without eligible fields, and failed bindings.              *)
(***************************************************************************)
NoPublicFields(T) ==
    \A i \in 1..NumField(T) : ~IsLetterUpper(StructFields(T)[i].name[1])

NonEmptyMapping ==
    /\ input.ptrKind = "ptr"
    /\ input.params.k = "map"
    /\ DOMAIN input.params.m # {}

\* C14: converting a non-empty mapping into a struct type that has no
\* eligible public fields fails with the EmptyStructFields error.
C14_NoFieldsIsAnError ==
    (outcome.done /\ NonEmptyMapping /\ NoPublicFields(input.type))
        => outcome.err = "EmptyStructFields"

\* What the code does for such a type: it returns success and binds nothing.
C14_NoFieldsIsSuccess ==
    (outcome.done /\ NonEmptyMapping /\ NoPublicFields(input.type))
        => /\ outcome.err = ""
           /\ StructOf(dest) = StructOf(IF IsNilPtr(input.cell)
                                        THEN PtrTo(ZeroStruct(input.type))
                                        ELSE input.cell)

\* C15: whenever the binding of a value to a field fails, the enclosing
\* doStruct call returns an error that is not nil; the failure is never
\* replaced by a success result.
C15_BindFailureSurfaces ==
    /\ \A f \in Frames : (f.pc = "ret" /\ f.failed # {}) => (f.err # "" \/ f.panicking)
    /\ (outcome.done /\ outcome.failed # {}) => outcome.err # ""

\* What holds: the failure of a field that is a struct, a pointer to a
\* struct or a type with UnmarshalValue is surfaced.
StructLike(T, n) ==
    \A i \in 1..NumField(T) :
        StructFields(T)[i].name = n => StructFields(T)[i].type.kind # "ptrraw"

C15_StructBindFailureSurfaces ==
    \A f \in Frames :
        (f.pc = "ret" /\ \E n \in f.failed : StructLike(StructOf(f.cell).type, n))
            => (f.err # "" \/ f.panicking)

\* C17: when the binding of one field fails, the other fields whose values
\* were resolved are still bound, and the call returns the error of the
\* field that failed first.
C17_SiblingsStillBound ==
    \A f \in Frames :
        (f.pc = "ret" /\ f.failed # {} /\ (f.err # "" \/ f.panicking)) =>
            \A n \in DOMAIN f.fieldInfoMap \ f.failed :
                f.fieldInfoMap[n].val.k # "nil" => n \in DOMAIN f.bound

\* What holds: the call returns at the first field whose binding gives an
\* error, with that field's error.
C17_FirstErrorReturned ==
    \A f \in Frames :
        (f.pc = "ret" /\ f.failed # {} /\ (f.err # "" \/ f.panicking)) =>
            /\ Cardinality(f.failed \cap f.todo) = 1
            /\ \A n \in f.failed \ f.todo : ~StructLike(StructOf(f.cell).type, n)

(***************************************************************************)
(* The tables of the cache.  The table at address a is the one caller a    *)
(* allocated, for the type of its call.                                    *)
(***************************************************************************)
Tables == {a \in Callers : callers[a].built}

\* cachedFieldInfo.FieldName of the descriptor at position k of a table.
FieldName(csi, k) ==
    LET names == csi.bases[csi.infos[k].base].priorityTagAndFieldName
    IN  names[Len(names)]

\* The field of type T an index path leads to.
RECURSIVE FieldAt(_, _)
FieldAt(T, path) ==
    LET fld == StructFields(T)[Head(path)] IN
    IF Len(path) = 1 THEN fld ELSE FieldAt(fld.type.elem, Tail(path))

\* The order in which parseStruct meets the fields: that of their index paths.
RECURSIVE PathBefore(_, _)
PathBefore(p, q) ==
    IF p = <<>> THEN q # <<>>
    ELSE IF q = <<>> THEN FALSE
    ELSE IF Head(p) # Head(q) THEN Head(p) < Head(q)
    ELSE PathBefore(Tail(p), Tail(q))

\* C18: in every table built by parseStruct and AddField no two primary
\* descriptors have the same declared name: the first field met with a name
\* becomes the primary descriptor, and the index paths of the later fields
\* of that name are appended to its duplicate paths in the order met.
C18_OnePrimaryPerName ==
    \A a \in Tables :
        LET csi == heap[a]
            prim == csi.fieldConvertInfos
        IN  /\ \A i, j \in 1..Len(prim) :
                  i # j => FieldName(csi, prim[i]) # FieldName(csi, prim[j])
            /\ \A b \in 1..Len(csi.bases) :
                  LET base == csi.bases[b]
                      other == base.otherSameNameFieldIndex
                  IN  /\ \A k \in 1..Len(other) :
                            /\ FieldAt(callers[a].type, PathOf(csi, other[k])).name
                                   = base.structField.name
                            /\ PathBefore(PathOf(csi, base.fieldIndexes),
                                          PathOf(csi, other[k]))
                      /\ \A k, l \in 1..Len(other) :
                            k < l => PathBefore(PathOf(csi, other[k]),
                                                PathOf(csi, other[l]))

\* What holds of every table: the duplicate paths of a descriptor lead to
\* fields of its name, after the descriptor's own field and in the order met.
C18_DuplicatePathsInOrder ==
    \A a \in Tables :
        \A b \in 1..Len(heap[a].bases) :
            LET csi == heap[a]
                base == csi.bases[b]
                other == base.otherSameNameFieldIndex
            IN  /\ \A k \in 1..Len(other) :
                      /\ FieldAt(callers[a].type, PathOf(csi, other[k])).name
                             = base.structField.name
                      /\ PathBefore(PathOf(csi, base.fieldIndexes), PathOf(csi, other[k]))
                /\ \A k, l \in 1..Len(other) :
                      k < l => PathBefore(PathOf(csi, other[k]), PathOf(csi, other[l]))

\* C19: an anonymous embedded struct or pointer-to-struct member is entered
\* as a bindable field only if it carries a priority tag; an untagged one
\* contributes its promoted inner fields and has no descriptor or match key
\* of its own.
C19_UntaggedEmbeddedNotEntered ==
    \A a \in Tables :
        \A b \in 1..Len(heap[a].bases) :
            LET base == heap[a].bases[b] IN
            EmbeddedStruct(base.structField) # ""
                => Len(base.priorityTagAndFieldName) > 1

\* What holds: the fields of an embedded member are entered under their own
\* names, with index paths that pass through the member.
C19_PromotedFieldsEntered ==
    \A a \in Tables :
        \A b \in 1..Len(heap[a].bases) :
            LET base == heap[a].bases[b]
                path == PathOf(heap[a], base.fieldIndexes)
            IN  /\ FieldAt(callers[a].type, path) = base.structField
                /\ Len(path) > 1 =>
                      EmbeddedStruct(FieldAt(callers[a].type,
                                             SubSeq(path, 1, Len(path) - 1))) # ""

\* C20: the match keys of every descriptor are not empty, their last entry
\* is the declared name of the field, which FieldName returns, and every
\* earlier entry is a tag name that is not empty.
C20_MatchKeysEndWithName ==
    \A a \in Tables :
        LET csi == heap[a] IN
        /\ \A b \in 1..Len(csi.bases) :
              LET names == csi.bases[b].priorityTagAndFieldName IN
              /\ names # <<>>
              /\ names[Len(names)] = csi.bases[b].structField.name
              /\ \A j \in 1..(Len(names) - 1) : names[j] # <<>>
        /\ \A k \in 1..Len(csi.infos) :
              FieldName(csi, k) = csi.bases[csi.infos[k].base].structField.name

\* A descriptor whose first priority tag has an empty name and whose second
\* one supplies the key.
C20_Witness ==
    \E a \in Tables :
        /\ callers[a].pc = "done"
        /\ callers[a].type = "Tagged"
        /\ callers[a].priorityTag = <<"a", "b">>
        /\ \E k \in 1..Len(heap[a].infos) :
              /\ heap[a].bases[heap[a].infos[k].base].priorityTagAndFieldName = <<sz, sG>>
              /\ FieldName(heap[a], k) = sG

(***************************************************************************)
(* A source of the type of the element the destination pointer designates. *)
(***************************************************************************)
IdenticalType ==
    /\ input.ptrKind = "ptr"
    /\ input.params.k = "cell"
    /\ input.params.cell.kind = input.cell.kind
    /\ input.params.cell.type = input.cell.type

\* C12: when the source and the destination element have the identical
\* type, doStruct copies the source into the destination and returns
\* success, without the custom converter, the unmarshalling interfaces, the
\* creation of a struct for a nil pointer, or any field matching.
C12_IdenticalTypeCopied ==
    (outcome.done /\ IdenticalType) =>
        /\ outcome.err = ""
        /\ dest = input.params.cell
        /\ outcome.steps = {}

\* A User copied over a destination that held other values, in a call that
\* also gave a key-to-attribute map.
C12_Witness ==
    /\ outcome.done /\ IdenticalType
    /\ input.cell = FilledStruct("User", "old")
    /\ input.mapping # NoEntries
    /\ dest = StructCell("User", << ScalarCell("v1"), ScalarCell("v2") >>)

\* A source of another type goes through the stages after the type check.
C12_OtherTypeIsMatched ==
    (outcome.done /\ input.ptrKind = "ptr" /\ input.params.k = "cell" /\ ~IdenticalType)
        => {"custom", "interface", "match"} \subseteq outcome.steps

(***************************************************************************)
(* Two calls with the same arguments.                                      *)
(***************************************************************************)
BothDone == outcome.done /\ previous.done

\* C11: converting the same source twice, into two destinations that hold
\* the zero value and with the same key-to-attribute map and tag list, gives
\* destinations of equal value and the same error outcome, whatever the
\* order in which the maps are iterated.
C11_SameResultTwice ==
    BothDone => (dest = previous.dest /\ outcome.err = previous.err)

\* What holds of two such calls when no field needs the fuzzy match and no
\* binding fails: the order of the fields does not matter.
C11_SameResultWithoutFuzzy ==
    (BothDone /\ outcome.err = "" /\ previous.err = ""
        /\ input.params.k = "map"
        /\ input.type \in {"Tagged", "Holder", "Mixed", "Raw", "Sealed"})
        => dest = previous.dest

(***************************************************************************)
(* The order of the bindings of a call.                                    *)
(***************************************************************************)
\* C23: within one call the fields are resolved and bound in the order of
\* their declaration, and the key a field consumed is marked before the
\* next field in that order is resolved.
C23_BoundInDeclarationOrder ==
    \A f \in Frames :
        \A n, m \in DOMAIN f.bound :
            f.fieldInfoMap[n].index < f.fieldInfoMap[m].index
                => f.bound[n].ord < f.bound[m].ord

\* What holds: the bindings of a call follow one another, each with its
\* own position, and the key of each is marked when it is bound.
C23_BoundOneByOne ==
    \A f \in Frames :
        /\ \A n, m \in DOMAIN f.bound : n # m => f.bound[n].ord # f.bound[m].ord
        /\ \A n \in DOMAIN f.bound : f.bound[n].ord < Cardinality(DOMAIN f.bound)

(***************************************************************************)
(* Fields whose entry in the source holds nil.                             *)
(***************************************************************************)
\* The fields of a call without an override whose tag or name is a key of
\* the source that holds nil.
NilResolved(f) ==
    {n \in DOMAIN f.fieldInfoMap :
        /\ OverrideKeys(f, n) = {}
        /\ f.fieldInfoMap[n].tag \in DOMAIN f.params.m
        /\ f.params.m[f.fieldInfoMap[n].tag].k = "nil"}

\* C25: when the value resolved for a field is nil, the field is set to the
\* zero value of its type, whatever it held before, and no conversion is
\* attempted.
C25_NilZeroesField ==
    \A f \in Frames :
        Completed(f) =>
            \A n \in NilResolved(f) :
                LET c == StructOf(f.cell).fields[f.fieldInfoMap[n].index]
                IN  c = ZeroOf(c)

\* What the code does with such a field: the nil entry is never bound; the
\* field is left to the fuzzy match, which binds it only to a value.
C25_NilEntryNeverBound ==
    \A f \in Frames :
        \A n \in NilResolved(f) :
            n \in DOMAIN f.bound =>
                /\ f.bound[n].how = "fuzzy"
                /\ f.params.m[f.bound[n].key].k # "nil"

(***************************************************************************)
(* Panics raised while a field is assigned.                                *)
(***************************************************************************)
\* C24: a panic raised while a value is assigned to a field is recovered at
\* the boundary of that field and the call returns an error that carries
\* the name of the field; no such panic reaches the caller of doStruct.
C24_PanicBecomesFieldError ==
    /\ (outcome.done /\ outcome.panicAt # {}) =>
          /\ outcome.err # ""
          /\ outcome.errField \in outcome.panicAt
    /\ \A f \in Frames :
          (f.pc = "ret" /\ f.panicAt # {}) => ~f.panicking

\* What holds: no panic leaves doStruct, whose own deferred function turns
\* it into the InternalPanic error; and the panic that the default case of
\* bindVarToReflectValue recovers comes back with the name of the field.
C24_PanicNeverLeavesDoStruct ==
    /\ (outcome.done /\ outcome.panicked) =>
          (outcome.err = "InternalPanic" /\ outcome.errField = <<>>)
    /\ \A f \in Frames :
          (f.pc = "ret" /\ f.errField # <<>> /\ f.call = "top") =>
              /\ f.errField \in f.panicAt
              /\ FieldNamed(StructOf(f.cell).type, f.errField).type.kind = "raw"

(***************************************************************************)
(* The maps of the pool.                                                   *)
(***************************************************************************)
Holding == {u \in Users : users[u].pc = "holding"}

\* C26: every map handed out by poolGetUsedParamsKeyOrTagNameMap is empty,
\* since poolPutUsedParamsKeyOrTagNameMap removes every key before the map
\* goes back to the pool; under any interleaving of the gets and puts no
\* call sees a key another call consumed.
C26_HandedOutMapIsEmpty ==
    /\ \A u \in Holding : users[u].got = {}
    /\ \A m \in poolUsedParamsKeyOrTagNameMap : keyMaps[m] = {}
    /\ \A u, v \in Holding : u # v => users[u].m # users[v].m

\* A call holds a map that another call used and put back, while that call
\* marks keys in a map of its own.
C26_Witness ==
    \E u, v \in Holding :
        /\ u # v
        /\ users[u].m = 1 /\ users[v].m = 2
        /\ keyMaps[2] = PoolKeys
        /\ poolUsedParamsKeyOrTagNameMap = {}
        /\ u = 2 /\ keyMaps[1] # {}

\* C22: after any sequence of earlier calls, the table getCachedStructInfo
\* returns for a struct type and a tag list equals the table a fresh build
\* for that type and that tag list produces; an earlier call for the same
\* type with another tag list does not change the match keys returned.
C22_ReturnedTableIsFreshBuild ==
    \A p \in Callers :
        (callers[p].pc = "done" /\ IsStructType(callers[p].type)) =>
            heap[callers[p].result]
                = SingleBuild(callers[p].type, callers[p].priorityTag)

\* What holds: the table returned is the fresh build for the tag list of
\* the call that built it, which is the caller its address names.
C22_ReturnedTableIsBuildersBuild ==
    \A p \in Callers :
        (callers[p].pc = "done" /\ IsStructType(callers[p].type)) =>
            heap[callers[p].result]
                = SingleBuild(callers[p].type,
                              callers[callers[p].result].priorityTag)

\* The tables that are or have been given to the cache: from the Store on.
Stored ==
    {a \in Callers : callers[a].built /\ callers[a].pc = "done"}
        \cup {cachedStructsInfoMap[T] : T \in DOMAIN cachedStructsInfoMap}

\* C21: once a table is stored in the cache no later operation modifies
\* its contents: a table is only changed by AddField during the build that
\* precedes the Store.  (lastFuzzyKey is written by no operation here.)
C21_StoredTableUnchanged ==
    [][\A a \in Stored : heap'[a] = heap[a]]_vars

\* A stored table after whose Store another call built and stored a table
\* and a converter was registered for the type of its field.
C21_Witness ==
    \E a \in Stored : \E q \in Callers \ {a} :
        /\ callers[a].built /\ callers[a].pc = "done"
        /\ a \in callers[q].after
        /\ callers[q].built /\ callers[q].pc = "done"
        /\ callers[a].type = "Wrap"
        /\ ~heap[a].bases[1].isCustomConvert
        /\ "Inner" \in customConvTypeMap

\* The index paths of the fields parseStruct passes to AddField: the public
\* fields of T and, through its embedded members, theirs.
RECURSIVE FieldPaths(_, _)
FieldPaths(T, prefix) ==
    UNION { IF ~IsLetterUpper(StructFields(T)[i].name[1]) THEN {}
            ELSE {prefix \o << i >>} \cup
                 (IF EmbeddedStruct(StructFields(T)[i]) # ""
                  THEN FieldPaths(EmbeddedStruct(StructFields(T)[i]), prefix \o << i >>)
                  ELSE {})
          : i \in 1..NumField(T) }

\* The tables whose build has ended.
Built == {a \in Tables : callers[a].pc = "done"}

\* C28: AddField records a field as a duplicate only of a descriptor with
\* the identical declared name, and a field with a declared name that no
\* earlier field has gets a primary descriptor of its own, also when the
\* name equals the tag key of an earlier field.
C28_DuplicateOnlyOfSameName ==
    \A a \in Built :
        LET csi == heap[a]
            T == callers[a].type
        IN  /\ \A b \in 1..Len(csi.bases) :
                  \A k \in 1..Len(csi.bases[b].otherSameNameFieldIndex) :
                      FieldAt(T, PathOf(csi, csi.bases[b].otherSameNameFieldIndex[k])).name
                          = csi.bases[b].structField.name
            /\ \A path \in FieldPaths(T, <<>>) :
                  (\A q \in FieldPaths(T, <<>>) :
                        PathBefore(q, path) => FieldAt(T, q).name # FieldAt(T, path).name)
                  => \E i \in 1..Len(csi.fieldConvertInfos) :
                        csi.bases[csi.infos[csi.fieldConvertInfos[i]].base].structField
                            = FieldAt(T, path)

\* C29: in every built table, each match key of a primary descriptor looks
\* up a descriptor of that same field: a later field with a tag equal to the
\* declared name or the tag of an earlier field does not redirect the key.
C29_MatchKeysLeadToOwnField ==
    \A a \in Built :
        LET csi == heap[a] IN
        \A i \in 1..Len(csi.fieldConvertInfos) :
            LET base == csi.bases[csi.infos[csi.fieldConvertInfos[i]].base]
                names == base.priorityTagAndFieldName
            IN  \A j \in 1..Len(names) :
                    /\ names[j] \in DOMAIN csi.tagOrFiledNameToFieldInfoMap
                    /\ csi.bases[csi.infos[csi.tagOrFiledNameToFieldInfoMap[names[j]]].base]
                           .structField = base.structField

\* C30: after any sequence of registrations and calls, the custom-convert
\* flag of a cached descriptor is true exactly when the type of its field,
\* one pointer level stripped, is registered now, also when the registration
\* was made after the table was cached.
C30_FlagFollowsRegistration ==
    \A a \in Stored :
        \A b \in 1..Len(heap[a].bases) :
            heap[a].bases[b].isCustomConvert
                <=> TypeString(heap[a].bases[b].structField.type) \in customConvTypeMap

\* What holds: a flag that is true names a registered type.
C30_FlagImpliesRegistered ==
    \A a \in Stored :
        \A b \in 1..Len(heap[a].bases) :
            heap[a].bases[b].isCustomConvert
                => TypeString(heap[a].bases[b].structField.type) \in customConvTypeMap

\* The index paths a table stores: those of its descriptors and of their
\* duplicates, each with the position it is stored at.
StoredPaths(csi) ==
    {[base |-> b, k |-> 0, slice |-> csi.bases[b].fieldIndexes] :
        b \in 1..Len(csi.bases)}
    \cup UNION {{[base |-> b, k |-> k,
                  slice |-> csi.bases[b].otherSameNameFieldIndex[k]] :
                    k \in 1..Len(csi.bases[b].otherSameNameFieldIndex)} :
                b \in 1..Len(csi.bases)}

\* C27: for every field, at every embedding depth, the index path stored
\* in its descriptor is the sequence of positions that leads to the field,
\* during the build and after it, and no two stored index paths share a
\* backing array, which a later append(fieldIndexes, i) could overwrite.
C27_IndexPathsLeadToField ==
    \A a \in Tables :
        LET csi == heap[a] IN
        /\ \A b \in 1..Len(csi.bases) :
              /\ PathOf(csi, csi.bases[b].fieldIndexes)
                     \in FieldPaths(callers[a].type, <<>>)
              /\ FieldAt(callers[a].type, PathOf(csi, csi.bases[b].fieldIndexes))
                     = csi.bases[b].structField
        /\ \A x, y \in StoredPaths(csi) :
              (x.base # y.base \/ x.k # y.k) => x.slice.arr # y.slice.arr

\* What holds: the index paths of the fields at most three deep.
C27_ShallowIndexPathsLeadToField ==
    \A a \in Tables :
        LET csi == heap[a] IN
        \A b \in 1..Len(csi.bases) :
            csi.bases[b].fieldIndexes.len <= 3 =>
                FieldAt(callers[a].type, PathOf(csi, csi.bases[b].fieldIndexes))
                    = csi.bases[b].structField

====
